---- MODULE Spec2Model ----
(***************************************************************************)
(* Live transcription pipeline of the EHR backend.                         *)
(*                                                                         *)
(*   SessionSpec  the chunked ingress and the session lifecycle            *)
(*                (routers/diagnosis/transcription_router.py) together     *)
(*                with the local recognizer (kernel/transcribe.py)         *)
(*   ASRSpec      the streaming ingress (main.py /ws/transcribe) and the   *)
(*                shared WhisperProviderClient                             *)
(*                (routers/intelligence/transcription_router.py)           *)
(*   KernelSpec   ContinuousTranscriber called on files and on bytes       *)
(*                (kernel/transcribe.py)                                   *)
(*   BufferSpec   the two bounded sample buffers of WhisperProviderClient  *)
(*   StoreSpec    the "transcriptions" collection of the case store, its   *)
(*                readers (routers/intelligence/recommendation_router.py,  *)
(*                kernel/decision.py) and the incremental case save        *)
(*   EHRSpec      the demographics endpoints (routers/ehr/                 *)
(*                demographics_router.py) over EHRService                  *)
(*                (services/ehr_service.py)                                *)
(***************************************************************************)
EXTENDS Integers, Sequences, FiniteSets, TLC

(***************************************************************************)
(* Bounds of the model                                                     *)
(***************************************************************************)
MaxChunks == 3      \* transcribe-chunk requests submitted in one run
MaxStarts == 2      \* start-session requests in one run
MaxInFlight == 2    \* transcribe-chunk requests suspended at audio.read()
MaxFrames == 2      \* audio frames received on /ws/transcribe in one run
MaxFaults == 2      \* backend closes, failed connects and disconnect() calls
                    \* in one run
MaxCalls == 3       \* calls of the ContinuousTranscriber in one run
MaxPushes == 4      \* blocks of samples pushed to the buffers in one run
MaxSaves == 3       \* incremental case saves in one run
MaxCreates == 3     \* EHR records created in one run

(***************************************************************************)
(* Program constants                                                       *)
(***************************************************************************)
None == 0                 \* Python None for ids and times (both start at 1)
sample_rate == 16000
MinSamples == 8000        \* 0.5 * sample_rate
SilencePeak == 10         \* 0.01, amplitudes are in thousandths of full scale

VARIABLES
  \* transcription_state of routers/diagnosis/transcription_router.py
  segments, current_session_id, is_active, last_update,
  \* environment of the session router
  now,          \* datetime.now(), in ticks
  next_uuid,    \* uuid.uuid4() values handed out so far
  requests,     \* transcribe_chunk coroutines suspended at audio.read()
  recog,        \* the call of transcriber.transcribe_audio in the last step
  response,     \* the response sent by the last step
  hist          \* history: the requests counted, the ids of the segments
                \* appended and archived so far, and for the current segment
                \* list the request each segment came from, the number of
                \* accepted speech chunks and whether they ran one at a time,
                \* and the last request submitted to the current session
                \* that a stop-session found in flight

VARIABLES
  \* WhisperProviderClient (the global ai_client) and its surroundings
  websocket,    \* self.websocket: None or the connection it refers to
  conns,        \* every connection websockets.connect returned, by number
  callers,      \* the /ws/transcribe handlers, each inside or between
                \* forward_to_ai_provider calls
  closer,       \* the connection a disconnect() call is closing, or None
  asr_hist      \* history: frames received, and faults injected

VARIABLES
  \* ContinuousTranscriber (kernel/transcribe.py) and the temporary directory
  temp_files,   \* the files tempfile.NamedTemporaryFile(delete=False) made
                \* that are still on disk, by number
  transcribed,  \* the last call of the transcriber and what it returned
  kernel_hist   \* history: calls made and temporary files created

VARIABLES
  \* the sample buffers of WhisperProviderClient
  audio_buffer,   \* self.audio_buffer
  overlap_buffer, \* self.overlap_buffer
  buffer_hist     \* history: blocks pushed

VARIABLES
  \* db.cdss.get_collection("transcriptions")
  transcriptions, \* the documents of the collection, in insertion order
  store_hist      \* history: saves made, and the case and text of the last

VARIABLES
  \* db.cdss.get_collection("demographics") and the EHR endpoints over it
  demographics,   \* the documents of the collection, in insertion order
  ehr_response,   \* the response sent by the last step
  ehr_hist        \* history: ObjectId() values generated so far

sessionVars == <<segments, current_session_id, is_active, last_update,
                 now, next_uuid, requests, recog, response, hist>>

asrVars == <<websocket, conns, callers, closer, asr_hist>>

kernelVars == <<temp_files, transcribed, kernel_hist>>

bufferVars == <<audio_buffer, overlap_buffer, buffer_hist>>

storeVars == <<transcriptions, store_hist>>

ehrVars == <<demographics, ehr_response, ehr_hist>>

vars == <<sessionVars, asrVars, kernelVars, bufferVars, storeVars, ehrVars>>

\* What the handlers of one part of the program leave alone
outsideSession == <<asrVars, kernelVars, bufferVars, storeVars, ehrVars>>
outsideASR == <<sessionVars, kernelVars, bufferVars, storeVars, ehrVars>>
outsideKernel == <<sessionVars, asrVars, bufferVars, storeVars, ehrVars>>
outsideBuffers == <<sessionVars, asrVars, kernelVars, storeVars, ehrVars>>
outsideStore == <<sessionVars, asrVars, kernelVars, bufferVars, ehrVars>>
outsideEHR == <<sessionVars, asrVars, kernelVars, bufferVars, storeVars>>

(***************************************************************************)
(* Text: a Python str is a sequence of characters                          *)
(***************************************************************************)
Chars == {" ", "a", "b"}

RECURSIVE LStrip(_)
LStrip(s) == IF s # <<>> /\ Head(s) = " " THEN LStrip(Tail(s)) ELSE s

RECURSIVE RStrip(_)
RStrip(s) ==
  IF s # <<>> /\ s[Len(s)] = " " THEN RStrip(SubSeq(s, 1, Len(s) - 1)) ELSE s

\* str.strip()
Strip(s) == RStrip(LStrip(s))

IsPrefix(s, t) == Len(s) <= Len(t) /\ SubSeq(t, 1, Len(s)) = s

(***************************************************************************)
(* Inputs                                                                  *)
(***************************************************************************)
\* An audio file as pydub, librosa and Whisper see it: whether librosa.load
\* decodes the file as it is, whether pydub converts it to WAV, its length in
\* samples at 16 kHz, its peak amplitude in thousandths, the text the
\* acoustic model decodes from it, and whether the model runs through.
Audio(decodable, convertible, len, peak, said, model_ok) ==
  [decodable |-> decodable, convertible |-> convertible, len |-> len,
   peak |-> peak, said |-> said, model_ok |-> model_ok]

\* The uploads of the chunked ingress
AudioInputs ==
  { Audio(FALSE, FALSE, 0,     0,   <<>>,         TRUE),
    Audio(TRUE,  TRUE,  7999,  500, <<"a">>,      TRUE),
    Audio(TRUE,  TRUE,  32000, 9,   <<"a">>,      TRUE),
    Audio(TRUE,  TRUE,  8000,  10,  <<" ", "b", " ">>, TRUE),
    Audio(TRUE,  TRUE,  80000, 500, <<" ">>,      TRUE) }

\* The files and byte strings the transcriber is called on: the uploads, a
\* file the model fails on, a file pydub cannot convert but librosa reads,
\* and one only pydub reads
KernelInputs ==
  AudioInputs \cup
  { Audio(TRUE,  TRUE,  80000, 500, <<"a">>, FALSE),
    Audio(TRUE,  FALSE, 80000, 500, <<"b">>, TRUE),
    Audio(FALSE, TRUE,  80000, 500, <<"a", " ">>, TRUE) }

\* The suffix of the file name transcribe_audio is called with
Suffixes == {"wav", "webm", "opus"}

\* The timestamp form field: epoch milliseconds in digits, or not a number.
TimestampInputs == { <<"x">>, <<"2", "0", "0", "0">> }

\* UploadFile.content_type: "None" stands for an upload without one.
ContentTypes == {"audio/webm", "text/plain", "None"}

\* A binary frame of /ws/transcribe after webm_to_librosa_temp: its length in
\* samples, its peak amplitude in thousandths, and the text the recognizer
\* backend answers it with.
FrameInputs ==
  { [len |-> 4000,  peak |-> 3,   said |-> "a"],
    [len |-> 80000, peak |-> 500, said |-> "b"] }

NoFrame == [len |-> 0, peak |-> 0, said |-> ""]

\* The lengths, in samples, of the blocks pushed to a buffer
BlockInputs == {1, 4000, 16000, 80000, 96001}

\* collections.deque(maxlen=...) holding samples of a stream: how many
\* samples were pushed at the right end and how many of the oldest are gone,
\* so that it holds the samples dropped + 1 .. pushed of the stream
Deque(bounded, maxlen) ==
  [bounded |-> bounded, maxlen |-> maxlen, pushed |-> 0, dropped |-> 0]

\* len(d)
DequeLen(d) == d.pushed - d.dropped

\* d.extend(block) for a block of n samples: a deque with a maxlen that is
\* full discards one item from the left end for each item appended
DequeExtend(d, n) ==
  LET excess == d.pushed + n - d.maxlen IN
  [d EXCEPT !.pushed = @ + n,
            !.dropped = IF d.bounded /\ excess > @ THEN excess ELSE @]

\* (mutant) collections.deque() without maxlen
AudioBufferUnbounded == Deque(FALSE, 0)

\* Line 26
AudioBuffer == Deque(TRUE, 6 * 16 * 1000)

\* Line 27
OverlapBuffer == Deque(TRUE, 16 * 1000)

\* The cases transcripts are saved for
CaseIds == {"case1", "case2"}

\* The new text of an incremental case save
IncrementInputs == { <<"a">>, <<"b">>, <<"a", " ">> }

\* find_one found nothing (Python None)
NoDocument == [case_id |-> "None", text |-> <<>>]

\* The documents of a collection that match {"case_id": case_id}
Matching(coll, case_id) ==
  LET Matches(doc) == doc.case_id = case_id IN SelectSeq(coll, Matches)

\* get_collection("transcriptions").find_one({"case_id": case_id})
FindOne(coll, case_id) ==
  IF Matching(coll, case_id) = <<>> THEN NoDocument
  ELSE Head(Matching(coll, case_id))

\* bson.ObjectId(): the n-th value generated
ObjectId(n) == [type |-> "ObjectId", hex |-> n]

\* A str holding the 24 hexadecimal digits of the n-th ObjectId: what a
\* {record_id} path parameter is, and what str(ObjectId) gives
HexStr(n) == [type |-> "str", hex |-> n]

\* The bodies of create and update requests: the fields of a Demographics
\* that model_dump(by_alias=True, exclude_unset=True) gives. `_id` is not
\* among them: a name with a leading underscore is no field of the model.
DemographicsInputs ==
  { [patient_id |-> "p1", phone |-> "None"],
    [patient_id |-> "p1", phone |-> "1"],
    [patient_id |-> "p2", phone |-> "2"] }

\* The {record_id} path parameters of the requests
RecordIds == {HexStr(n) : n \in 1..(MaxCreates + 1)}

\* find_one found nothing (Python None)
NoRecord == [_id |-> HexStr(0), patient_id |-> "None", phone |-> "None"]

\* The /ws/transcribe clients connected, all sharing the global ai_client
Callers == {"ws1", "ws2"}

\* json.dumps({"transcript": "", "status": "timeout"})
TimeoutSentinel == [transcript |-> "", status |-> "timeout"]

\* The text frame the backend answers a message with
BackendResponse(msg) == [transcript |-> msg.said, status |-> "ok"]

NoResult == [transcript |-> "", status |-> "none"]

\* send_audio ended in an exception
Raised == [transcript |-> "", status |-> "raised"]

IdleCaller ==
  [pc |-> "idle", audio |-> NoFrame, conn |-> None,
   reconnects |-> 0, timed_out |-> FALSE, result |-> NoResult]

NewConnection == [open |-> TRUE, pending |-> <<>>, inbox |-> <<>>]

(***************************************************************************)
(* kernel/transcribe.py                                                    *)
(***************************************************************************)
\* What a call of transcribe_audio ends in: the text returned, whether the
\* Whisper model was run, whether the call raised instead of returning, and
\* whether the temporary WAV file of line 67 is left on disk
Result(text, invoked, raised, leaked) ==
  [text |-> text, invoked |-> invoked, raised |-> raised, leaked |-> leaked]

\* (mutant) the except clause prints and re-raises
OnTranscriptionErrorRaises(invoked, leaked) ==
  Result(<<>>, invoked, TRUE, leaked)

\* Lines 109-111: every exception inside transcribe_audio ends in ""
OnTranscriptionError(invoked, leaked) == Result(<<>>, invoked, FALSE, leaked)

\* convert_webm_to_wav: the file it returns, the converted output or, when
\* pydub fails, the input file (lines 57-60)
ConvertWebmToWav(audio) ==
  IF audio.convertible THEN "output_file" ELSE "input_file"

\* ContinuousTranscriber.transcribe_audio on a file with the given suffix
TranscribeAudioFile(suffix, audio) ==
  LET converts == suffix \in {"webm", "opus"}
      wav_filename == IF converts THEN ConvertWebmToWav(audio) ELSE "input_file"
      \* librosa.load(wav_filename) returns
      loads == wav_filename = "output_file" \/ audio.decodable
  IN
  IF ~loads
    THEN OnTranscriptionError(FALSE, converts)
  ELSE IF audio.len * 2 < sample_rate               \* len < 0.5 * sample_rate
    THEN Result(<<>>, FALSE, FALSE, converts)
  ELSE IF audio.peak < SilencePeak
    THEN Result(<<>>, FALSE, FALSE, converts)
  ELSE IF ~audio.model_ok                           \* model.generate raises
    THEN OnTranscriptionError(TRUE, converts)
  \* lines 104-105 remove the temporary WAV when it was the file loaded
  ELSE Result(Strip(audio.said), TRUE, FALSE,
              converts /\ wav_filename = "input_file")

\* transcribe_audio as transcribe_chunk calls it, on the .wav temporary file
\* it wrote the upload to
TranscribeAudio(audio) == TranscribeAudioFile("wav", audio)

NoTranscribed ==
  [api |-> "none", suffix |-> "wav", is_bytes |-> TRUE,
   audio |-> CHOOSE a \in AudioInputs : ~a.decodable,
   text |-> <<>>, invoked |-> FALSE, raised |-> FALSE]

\* A caller runs transcribe_audio(filename) on a file of its own
TranscribeFile(suffix, audio) ==
  /\ UNCHANGED outsideKernel
  /\ kernel_hist.calls < MaxCalls
  /\ LET res == TranscribeAudioFile(suffix, audio)
         temp_wav == kernel_hist.created + 1
         converts == suffix \in {"webm", "opus"}
     IN
     /\ transcribed' = [api |-> "transcribe_audio", suffix |-> suffix,
                        is_bytes |-> TRUE, audio |-> audio, text |-> res.text,
                        invoked |-> res.invoked, raised |-> res.raised]
     /\ temp_files' = IF res.leaked THEN temp_files \cup {temp_wav}
                      ELSE temp_files
     /\ kernel_hist' = [calls |-> kernel_hist.calls + 1,
                        created |-> IF converts THEN temp_wav
                                    ELSE kernel_hist.created]

\* transcribe_audio_chunk_from_bytes(audio_bytes, audio_format); is_bytes is
\* false for an argument temp_file.write() refuses
TranscribeBytes(audio_format, audio, is_bytes) ==
  /\ UNCHANGED outsideKernel
  /\ kernel_hist.calls < MaxCalls
  /\ LET temp_filename == kernel_hist.created + 1
         temp_wav == kernel_hist.created + 2
         converts == audio_format \in {"webm", "opus"}
         res == TranscribeAudioFile(audio_format, audio)
     IN
     IF ~is_bytes
       \* write() raises inside the with block: lines 130-132 return "" and
       \* the file of line 117 stays
       THEN /\ transcribed' = [api |-> "transcribe_audio_chunk_from_bytes",
                               suffix |-> audio_format, is_bytes |-> FALSE,
                               audio |-> audio, text |-> <<>>,
                               invoked |-> FALSE, raised |-> FALSE]
            /\ temp_files' = temp_files \cup {temp_filename}
            /\ kernel_hist' = [calls |-> kernel_hist.calls + 1,
                               created |-> temp_filename]
       \* lines 121-128: the result of transcribe_audio, or "" from lines
       \* 130-132 if it raised; the finally clause removes temp_filename
       ELSE /\ transcribed' = [api |-> "transcribe_audio_chunk_from_bytes",
                               suffix |-> audio_format, is_bytes |-> TRUE,
                               audio |-> audio,
                               text |-> IF res.raised THEN <<>> ELSE res.text,
                               invoked |-> res.invoked, raised |-> FALSE]
            /\ temp_files' = IF res.leaked THEN temp_files \cup {temp_wav}
                             ELSE temp_files
            /\ kernel_hist' = [calls |-> kernel_hist.calls + 1,
                               created |-> IF converts THEN temp_wav
                                           ELSE temp_filename]

KernelNext ==
  \/ \E suffix \in Suffixes, audio \in KernelInputs :
       TranscribeFile(suffix, audio)
  \/ \E audio_format \in Suffixes, audio \in KernelInputs,
        is_bytes \in BOOLEAN :
       TranscribeBytes(audio_format, audio, is_bytes)

(***************************************************************************)
(* routers/diagnosis/transcription_router.py                               *)
(***************************************************************************)
\* audio.content_type.startswith("audio/"); on None the call raises
StartsWithAudio(ct) == ct = "audio/webm"

Digits == {"0", "1", "2"}

DigitVal(c) == IF c = "0" THEN 0 ELSE IF c = "1" THEN 1 ELSE 2

\* int(timestamp) succeeds
IsInt(ts) == ts # <<>> /\ \A i \in 1..Len(ts) : ts[i] \in Digits

\* int(timestamp)
RECURSIVE IntOf(_)
IntOf(ts) ==
  IF ts = <<>> THEN 0
  ELSE 10 * IntOf(SubSeq(ts, 1, Len(ts) - 1)) + DigitVal(ts[Len(ts)])

\* datetime.fromtimestamp(int(timestamp) / 1000).strftime("%H:%M:%S"),
\* as the second of the day
FormatHMS(ts) == (IntOf(ts) \div 1000) % 86400

\* TranscriptionSegment(...).to_dict()
TranscriptionSegment(id, text, ts, t) ==
  [id |-> id, speaker |-> "unknown", text |-> text,
   timestamp |-> FormatHMS(ts), startTime |-> t, endTime |-> t]

\* (mutant) the new segment is put at the head of the list
PrependSegment(segs, seg) == <<seg>> \o segs

\* (mutant) the append is guarded by `if transcription_state["is_active"]`
AppendIfActive(segs, seg) == IF is_active THEN Append(segs, seg) ELSE segs

\* transcription_state["segments"].append(...)
AppendSegment(segs, seg) == Append(segs, seg)

\* The last step did not call the transcriber
NoRecog == [called |-> FALSE, audio |-> CHOOSE a \in AudioInputs : ~a.decodable,
            text |-> <<>>, invoked |-> FALSE]

\* No response was sent by the last step
NoResponse == [op |-> "none", status |-> 0, body |-> [success |-> FALSE]]

Init ==
  /\ segments = <<>>
  /\ current_session_id = None
  /\ is_active = FALSE
  /\ last_update = None
  /\ now = 1
  /\ next_uuid = 0
  /\ requests = {}
  /\ recog = NoRecog
  /\ response = NoResponse
  /\ hist = [submitted |-> 0, starts |-> 0, appended |-> {}, archived |-> {},
             origin |-> <<>>, spoken |-> 0, sequential |-> FALSE,
             stop_at |-> 0]
  /\ temp_files = {}
  /\ transcribed = NoTranscribed
  /\ kernel_hist = [calls |-> 0, created |-> 0]
  /\ audio_buffer = AudioBuffer
  /\ overlap_buffer = OverlapBuffer
  /\ buffer_hist = [pushes |-> 0]
  /\ transcriptions = <<>>
  /\ store_hist = [saves |-> 0, last |-> NoDocument]
  /\ demographics = <<>>
  /\ ehr_response = [op |-> "none", record_id |-> HexStr(0), status |-> 0,
                     body |-> [detail |-> ""]]
  /\ ehr_hist = [object_ids |-> 0]
  /\ websocket = None
  /\ conns = <<>>
  /\ callers = [p \in Callers |-> IdleCaller]
  /\ closer = None
  /\ asr_hist = [frames |-> 0, faults |-> 0]

StateUnchanged ==
  UNCHANGED <<segments, current_session_id, is_active, last_update>>

\* The error every exception of transcribe_chunk ends in (lines 99-100)
TranscriptionFailed(detail) ==
  [op |-> "transcribe-chunk", status |-> 500,
   body |-> [detail |-> detail]]

\* The response of lines 88-92
NoSpeechDetected ==
  [op |-> "transcribe-chunk", status |-> 200,
   body |-> [success |-> TRUE, transcript |-> <<>>,
             message |-> "No speech detected"]]

\* hist.stop_at once the requests reqs are the ones in flight: it is kept
\* while a request it covers is in flight, and 0 otherwise
StopAt(reqs, at) ==
  IF \E q \in reqs : q.sub_sid = current_session_id /\ q.sub_no <= at
    THEN at ELSE 0

\* transcribe_chunk up to its suspension at `await audio.read()`
ChunkSubmit(ct) ==
  /\ UNCHANGED outsideSession
  /\ Cardinality(requests) < MaxInFlight
  /\ hist.submitted < MaxChunks
  /\ IF StartsWithAudio(ct)
       THEN /\ requests' = requests \cup
                  {[sub_no |-> hist.submitted + 1,
                    sub_sid |-> current_session_id]}
            /\ response' = NoResponse
       ELSE /\ response' = TranscriptionFailed("Invalid audio file")
            /\ UNCHANGED requests
  /\ hist' = [hist EXCEPT !.submitted = @ + 1,
                          !.sequential = @ /\ requests = {},
                          !.stop_at = StopAt(requests, @)]
  /\ StateUnchanged
  /\ UNCHANGED <<now, next_uuid>>
  /\ recog' = NoRecog

\* (mutant) `if transcript is not None:`
HasSpeechNotNone(transcript) == TRUE

\* `if transcript.strip():` of line 68
HasSpeech(transcript) == Strip(transcript) # <<>>

\* The chunk is one a listener would call speech with a usable timestamp:
\* it decodes, lasts 0.5 s or more, is not silent, and the model hears words.
\* (Stated on the input alone; the handler is measured against it.)
SpeechChunk(audio, ts) ==
  /\ audio.decodable
  /\ audio.len >= MinSamples
  /\ audio.peak >= SilencePeak
  /\ \E i \in 1..Len(audio.said) : audio.said[i] # " "
  /\ audio.model_ok
  /\ IsInt(ts)

\* (mutant) is_active is set before the statement that raises
ChunkFailsActivated(detail) ==
  /\ response' = TranscriptionFailed(detail)
  /\ is_active' = TRUE
  /\ UNCHANGED <<segments, current_session_id, last_update>>

\* transcribe_chunk ends in the except clause of lines 99-100: nothing was
\* assigned to transcription_state before the exception
ChunkFails(detail) ==
  /\ response' = TranscriptionFailed(detail)
  /\ StateUnchanged

\* `await audio.read()` or temp_file.write raises (the upload breaks off, the
\* disk is full): transcribe_chunk ends without calling the transcriber
ChunkReadFails(r) ==
  /\ UNCHANGED outsideSession
  /\ r \in requests
  /\ requests' = requests \ {r}
  /\ ChunkFails("read")
  /\ hist' = [hist EXCEPT !.stop_at = StopAt(requests \ {r}, @)]
  /\ UNCHANGED <<now, next_uuid>>
  /\ recog' = NoRecog

\* transcribe_chunk from the return of audio.read() to its response
ChunkFinish(r, audio, ts) ==
  /\ UNCHANGED outsideSession
  /\ r \in requests
  /\ requests' = requests \ {r}
  /\ LET res == TranscribeAudio(audio)
         transcript == res.text
         spoken == hist.spoken + IF SpeechChunk(audio, ts) THEN 1 ELSE 0
     IN
     /\ recog' = [called |-> TRUE, audio |-> audio, text |-> res.text,
                  invoked |-> res.invoked]
     /\ IF res.raised
          \* an exception of the transcriber would end in lines 99-100
          THEN /\ ChunkFails("transcribe_audio")
               /\ hist' = [hist EXCEPT !.spoken = spoken,
                                       !.stop_at = StopAt(requests \ {r}, @)]
               /\ UNCHANGED <<now, next_uuid>>
        ELSE IF HasSpeech(transcript)
          THEN IF IsInt(ts)
            THEN LET segment ==
                       TranscriptionSegment(next_uuid + 1, transcript, ts, now)
                 IN
                 /\ segments' = AppendSegment(segments, segment)
                 /\ last_update' = now
                 /\ is_active' = TRUE
                 /\ next_uuid' = next_uuid + 1
                 /\ now' = now + 1
                 /\ response' =
                      [op |-> "transcribe-chunk", status |-> 200,
                       body |-> [success |-> TRUE, transcript |-> transcript,
                                 segment_id |-> segment.id,
                                 timestamp |-> segment.timestamp]]
                 /\ hist' = [hist EXCEPT
                      !.appended = @ \cup {segment.id},
                      !.origin = Append(@, r),
                      !.spoken = spoken,
                      !.stop_at = IF r.sub_sid = current_session_id
                                     /\ r.sub_no <= @
                                    THEN @ ELSE StopAt(requests \ {r}, @)]
                 /\ UNCHANGED current_session_id
            ELSE /\ ChunkFails("invalid literal for int()")
                 /\ hist' = [hist EXCEPT !.spoken = spoken,
                                         !.stop_at = StopAt(requests \ {r}, @)]
                 /\ UNCHANGED <<now, next_uuid>>
          ELSE /\ response' = NoSpeechDetected
               /\ StateUnchanged
               /\ hist' = [hist EXCEPT !.spoken = spoken,
                                       !.stop_at = StopAt(requests \ {r}, @)]
               /\ UNCHANGED <<now, next_uuid>>

\* get_latest_transcription: the body it returns in the current state
Snapshot ==
  [segments |-> segments, is_active |-> is_active,
   last_update |-> last_update, session_id |-> current_session_id]

\* get_session_status: the body it returns in the current state
SessionStatus ==
  [session_id |-> current_session_id, is_active |-> is_active,
   segment_count |-> Len(segments), last_update |-> last_update]

\* (mutant) the read hands the segments over and empties the list
GetLatestTranscriptionDrains ==
  /\ UNCHANGED outsideSession
  /\ response' = [op |-> "get-latest-transcription", status |-> 200,
                  body |-> Snapshot]
  /\ segments' = <<>>
  /\ UNCHANGED <<current_session_id, is_active, last_update>>
  /\ UNCHANGED <<now, next_uuid, requests>>
  /\ hist' = [hist EXCEPT !.origin = <<>>]
  /\ recog' = NoRecog

GetLatestTranscription ==
  /\ UNCHANGED outsideSession
  /\ response' = [op |-> "get-latest-transcription", status |-> 200,
                  body |-> Snapshot]
  /\ StateUnchanged
  /\ UNCHANGED <<now, next_uuid, requests, hist>>
  /\ recog' = NoRecog

GetSessionStatus ==
  /\ UNCHANGED outsideSession
  /\ response' = [op |-> "session-status", status |-> 200,
                  body |-> SessionStatus]
  /\ StateUnchanged
  /\ UNCHANGED <<now, next_uuid, requests, hist>>
  /\ recog' = NoRecog

TranscriptionHealthCheck ==
  /\ UNCHANGED outsideSession
  /\ response' = [op |-> "health", status |-> 200,
                  body |-> [status |-> "healthy",
                            current_session |-> current_session_id,
                            active_segments |-> Len(segments)]]
  /\ StateUnchanged
  /\ UNCHANGED <<now, next_uuid, requests, hist>>
  /\ recog' = NoRecog

\* The summary of lines 143-158
Summary(segs, t) ==
  [total_segments |-> Len(segs),
   duration |-> segs[Len(segs)].endTime - segs[1].startTime,
   timestamp |-> t]

\* (mutant) the clearing forgets is_active
ClearedStillActive ==
  [segments |-> <<>>, current_session_id |-> None,
   is_active |-> TRUE, last_update |-> None]

\* The cleared transcription_state of lines 168-172
Cleared ==
  [segments |-> <<>>, current_session_id |-> None,
   is_active |-> FALSE, last_update |-> None]

\* (mutant) the empty case ends the session as the other case does
NothingToSummarizeStops ==
  /\ response' = [op |-> "summarize-conversation", status |-> 200,
                  body |-> [success |-> FALSE,
                            message |-> "No conversation to summarize"]]
  /\ is_active' = FALSE
  /\ current_session_id' = None
  /\ UNCHANGED <<segments, last_update>>
  /\ UNCHANGED <<now, next_uuid, requests, hist>>
  /\ recog' = NoRecog

\* Lines 127-131: summarize_conversation on an empty segment list
NothingToSummarize ==
  /\ response' = [op |-> "summarize-conversation", status |-> 200,
                  body |-> [success |-> FALSE,
                            message |-> "No conversation to summarize"]]
  /\ StateUnchanged
  /\ UNCHANGED <<now, next_uuid, requests, hist>>
  /\ recog' = NoRecog

SummarizeConversation ==
  /\ UNCHANGED outsideSession
  /\ IF segments = <<>>
       THEN NothingToSummarize
       ELSE LET summary == Summary(segments, now)
                fresh == current_session_id = None     \* ... or str(uuid.uuid4())
                archived_conversation ==
                  [session_id |-> IF fresh THEN next_uuid + 1
                                  ELSE current_session_id,
                   segments |-> segments, archived_at |-> now]
            IN
            /\ segments' = Cleared.segments
            /\ current_session_id' = Cleared.current_session_id
            /\ is_active' = Cleared.is_active
            /\ last_update' = Cleared.last_update
            /\ next_uuid' = IF fresh THEN next_uuid + 1 ELSE next_uuid
            /\ now' = now + 1
            /\ response' = [op |-> "summarize-conversation", status |-> 200,
                            body |-> [success |-> TRUE, summary |-> summary,
                                      archived_conversation |->
                                        archived_conversation]]
            /\ hist' = [hist EXCEPT
                 !.archived = @ \cup {segments[i].id : i \in 1..Len(segments)},
                 !.origin = <<>>,
                 !.spoken = 0,
                 !.sequential = FALSE,
                 !.stop_at = 0]
            /\ UNCHANGED requests
            /\ recog' = NoRecog

\* (mutant) `session_id = transcription_state["current_session_id"] or
\* str(uuid.uuid4())`, as summarize_conversation has it
StartSessionReusesId ==
  /\ UNCHANGED outsideSession
  /\ hist.starts < MaxStarts
  /\ LET session_id == IF current_session_id # None THEN current_session_id
                        ELSE next_uuid + 1
     IN
     /\ current_session_id' = session_id
     /\ segments' = <<>>
     /\ is_active' = TRUE
     /\ last_update' = now
     /\ response' = [op |-> "start-session", status |-> 200,
                     body |-> [success |-> TRUE, session_id |-> session_id]]
  /\ next_uuid' = next_uuid + 1
  /\ now' = now + 1
  /\ hist' = [hist EXCEPT !.starts = @ + 1,
                          !.origin = <<>>,
                          !.spoken = 0,
                          !.sequential = (requests = {}),
                          !.stop_at = 0]
  /\ UNCHANGED requests
  /\ recog' = NoRecog

StartSession ==
  /\ UNCHANGED outsideSession
  /\ hist.starts < MaxStarts
  /\ LET session_id == next_uuid + 1 IN
     /\ current_session_id' = session_id
     /\ segments' = <<>>
     /\ is_active' = TRUE
     /\ last_update' = now
     /\ response' = [op |-> "start-session", status |-> 200,
                     body |-> [success |-> TRUE, session_id |-> session_id]]
  /\ next_uuid' = next_uuid + 1
  /\ now' = now + 1
  /\ hist' = [hist EXCEPT !.starts = @ + 1,
                          !.origin = <<>>,
                          !.spoken = 0,
                          !.sequential = (requests = {}),
                          !.stop_at = 0]
  /\ UNCHANGED requests
  /\ recog' = NoRecog

\* The newest of the requests in flight that were submitted to session sid
LastInFlight(sid) ==
  LET subs == {r.sub_no : r \in {q \in requests : q.sub_sid = sid}} IN
  IF subs = {} \/ sid = None THEN 0
  ELSE CHOOSE n \in subs : \A m \in subs : m <= n

\* (mutant) stop-session as a toggle of the activity status
StopSessionToggles ==
  /\ UNCHANGED outsideSession
  /\ is_active' = ~is_active
  /\ response' = [op |-> "stop-session", status |-> 200,
                  body |-> [success |-> TRUE,
                            session_id |-> current_session_id,
                            total_segments |-> Len(segments)]]
  /\ UNCHANGED <<segments, current_session_id, last_update>>
  /\ UNCHANGED <<now, next_uuid, requests>>
  /\ hist' = [hist EXCEPT !.stop_at = LastInFlight(current_session_id)]
  /\ recog' = NoRecog

StopSession ==
  /\ UNCHANGED outsideSession
  /\ is_active' = FALSE
  /\ response' = [op |-> "stop-session", status |-> 200,
                  body |-> [success |-> TRUE,
                            session_id |-> current_session_id,
                            total_segments |-> Len(segments)]]
  /\ UNCHANGED <<segments, current_session_id, last_update>>
  /\ UNCHANGED <<now, next_uuid, requests>>
  /\ hist' = [hist EXCEPT !.stop_at = LastInFlight(current_session_id)]
  /\ recog' = NoRecog

(***************************************************************************)
(* routers/intelligence/transcription_router.py and main.py                *)
(***************************************************************************)
\* Another coroutine is suspended in recv() on connection c
RecvBusy(p, c) == \E q \in Callers \ {p} : callers[q].pc = "recv" /\ callers[q].conn = c

\* Lines 49-57 on connection c, up to the suspension in recv() or the
\* exception that ends the attempt: the caller and the connections after it
TrySend(p, caller, c, cs) ==
  IF ~cs[c].open
    \* send() raises ConnectionClosed: line 61, connect() is awaited
    THEN [caller |-> [caller EXCEPT !.pc = "reconnect", !.conn = None],
          conns |-> cs]
  ELSE IF RecvBusy(p, c)
    \* the frame is sent, then recv() raises ConcurrencyError, which neither
    \* except clause catches
    THEN [caller |-> [caller EXCEPT !.pc = "dead", !.conn = None,
                                    !.result = Raised],
          conns |-> [cs EXCEPT ![c].pending = Append(@, caller.audio)]]
  ELSE [caller |-> [caller EXCEPT !.pc = "recv", !.conn = c],
        conns |-> [cs EXCEPT ![c].pending = Append(@, caller.audio)]]

\* websocket_transcription receives a frame and calls forward_to_ai_provider:
\* send_audio runs to its first suspension
ReceiveAudio(p, frame) ==
  /\ UNCHANGED outsideASR
  /\ callers[p].pc = "idle"
  /\ asr_hist.frames < MaxFrames
  /\ asr_hist' = [asr_hist EXCEPT !.frames = @ + 1]
  /\ LET caller == [IdleCaller EXCEPT !.audio = frame] IN
     IF websocket = None
       THEN /\ callers' = [callers EXCEPT ![p] = [caller EXCEPT !.pc = "connect"]]
            /\ UNCHANGED conns
       ELSE LET t == TrySend(p, caller, websocket, conns) IN
            /\ callers' = [callers EXCEPT ![p] = t.caller]
            /\ conns' = t.conns
  /\ UNCHANGED <<websocket, closer>>

\* websockets.connect returns: connect() assigns self.websocket (line 32), and
\* send_audio goes on to send on it
ConnectDone(p) ==
  /\ UNCHANGED outsideASR
  /\ callers[p].pc \in {"connect", "reconnect"}
  /\ LET c == Len(conns) + 1
         caller == [callers[p] EXCEPT
                      !.reconnects = IF callers[p].pc = "reconnect"
                                       THEN @ + 1 ELSE @]
         t == TrySend(p, caller, c, Append(conns, NewConnection))
     IN
     /\ websocket' = c
     /\ callers' = [callers EXCEPT ![p] = t.caller]
     /\ conns' = t.conns
  /\ UNCHANGED <<closer, asr_hist>>

\* websockets.connect raises: connect() re-raises (lines 34-36) and nothing in
\* send_audio or websocket_transcription catches it
ConnectFail(p) ==
  /\ UNCHANGED outsideASR
  /\ callers[p].pc \in {"connect", "reconnect"}
  /\ asr_hist.faults < MaxFaults
  /\ asr_hist' = [asr_hist EXCEPT !.faults = @ + 1]
  /\ callers' = [callers EXCEPT ![p] =
       [@ EXCEPT !.pc = "dead",
                 !.reconnects = IF callers[p].pc = "reconnect" THEN @ + 1 ELSE @,
                 !.result = Raised]]
  /\ UNCHANGED <<websocket, conns, closer>>

\* recv() returns the next message of the connection (line 59)
RecvResponse(p) ==
  /\ UNCHANGED outsideASR
  /\ callers[p].pc = "recv"
  /\ LET c == callers[p].conn IN
     /\ conns[c].inbox # <<>>
     /\ callers' = [callers EXCEPT ![p] =
          [@ EXCEPT !.pc = "reply", !.conn = None,
                    !.result = Head(conns[c].inbox)]]
     /\ conns' = [conns EXCEPT ![c].inbox = Tail(@)]
  /\ UNCHANGED <<websocket, closer, asr_hist>>

\* recv() raises ConnectionClosed (line 61): connect() is awaited (line 63)
RecvClosed(p) ==
  /\ UNCHANGED outsideASR
  /\ callers[p].pc = "recv"
  /\ LET c == callers[p].conn IN
     /\ ~conns[c].open
     /\ conns[c].inbox = <<>>
  /\ callers' = [callers EXCEPT ![p] = [@ EXCEPT !.pc = "reconnect", !.conn = None]]
  /\ UNCHANGED <<websocket, conns, closer, asr_hist>>

\* (mutant) the timeout is not caught
OnTimeoutRaises(caller) ==
  [caller EXCEPT !.pc = "dead", !.conn = None, !.timed_out = TRUE,
                 !.result = Raised]

\* Lines 66-71: asyncio.TimeoutError is caught and the sentinel returned
OnTimeout(caller) ==
  [caller EXCEPT !.pc = "reply", !.conn = None, !.timed_out = TRUE,
                 !.result = TimeoutSentinel]

\* wait_for gives up after 10 s without a message (line 66)
RecvTimeout(p) ==
  /\ UNCHANGED outsideASR
  /\ callers[p].pc = "recv"
  /\ LET c == callers[p].conn IN
     /\ conns[c].open
     /\ conns[c].inbox = <<>>
  /\ callers' = [callers EXCEPT ![p] = OnTimeout(@)]
  /\ UNCHANGED <<websocket, conns, closer, asr_hist>>

\* websocket.send_text(ai_response) (main.py line 148), and the loop goes
\* back to receive_bytes
SendText(p) ==
  /\ UNCHANGED outsideASR
  /\ callers[p].pc = "reply"
  /\ callers' = [callers EXCEPT ![p] = IdleCaller]
  /\ UNCHANGED <<websocket, conns, closer, asr_hist>>

\* disconnect() up to its suspension in close() (lines 40-41)
DisconnectBegin ==
  /\ UNCHANGED outsideASR
  /\ closer = None
  /\ websocket # None
  /\ asr_hist.faults < MaxFaults
  /\ asr_hist' = [asr_hist EXCEPT !.faults = @ + 1]
  /\ closer' = websocket
  /\ UNCHANGED <<websocket, conns, callers>>

\* close() returns and self.websocket is set to None (line 42)
DisconnectEnd ==
  /\ UNCHANGED outsideASR
  /\ closer # None
  /\ conns' = [conns EXCEPT ![closer].open = FALSE, ![closer].pending = <<>>]
  /\ websocket' = None
  /\ closer' = None
  /\ UNCHANGED <<callers, asr_hist>>

\* The recognizer backend answers the oldest message of a connection
BackendRespond(c) ==
  /\ UNCHANGED outsideASR
  /\ conns[c].open
  /\ conns[c].pending # <<>>
  /\ conns' = [conns EXCEPT ![c].pending = Tail(@),
                            ![c].inbox = Append(@, BackendResponse(Head(conns[c].pending)))]
  /\ UNCHANGED <<websocket, callers, closer, asr_hist>>

\* The recognizer backend (or the network) closes a connection
BackendClose(c) ==
  /\ UNCHANGED outsideASR
  /\ conns[c].open
  /\ asr_hist.faults < MaxFaults
  /\ asr_hist' = [asr_hist EXCEPT !.faults = @ + 1]
  /\ conns' = [conns EXCEPT ![c].open = FALSE, ![c].pending = <<>>]
  /\ UNCHANGED <<websocket, callers, closer>>

\* A block of samples is pushed to self.audio_buffer
PushAudio(n) ==
  /\ UNCHANGED outsideBuffers
  /\ buffer_hist.pushes < MaxPushes
  /\ buffer_hist' = [pushes |-> buffer_hist.pushes + 1]
  /\ audio_buffer' = DequeExtend(audio_buffer, n)
  /\ UNCHANGED overlap_buffer

\* A block of samples is pushed to self.overlap_buffer
PushOverlap(n) ==
  /\ UNCHANGED outsideBuffers
  /\ buffer_hist.pushes < MaxPushes
  /\ buffer_hist' = [pushes |-> buffer_hist.pushes + 1]
  /\ overlap_buffer' = DequeExtend(overlap_buffer, n)
  /\ UNCHANGED audio_buffer

BufferNext ==
  \/ \E n \in BlockInputs : PushAudio(n)
  \/ \E n \in BlockInputs : PushOverlap(n)

BufferSpec == Init /\ [][BufferNext]_vars

\* All the text saved for a case, in insertion order
RECURSIVE SavedText(_)
SavedText(docs) ==
  IF docs = <<>> THEN <<>> ELSE Head(docs).text \o SavedText(Tail(docs))

\* Incremental case save of {text} for a case: all the text saved for the
\* case so far is read and the new text put behind it, then the documents of
\* the case are deleted and one document holding the whole text is inserted
SaveIncrement(case_id, text) ==
  /\ UNCHANGED outsideStore
  /\ store_hist.saves < MaxSaves
  /\ LET full == SavedText(Matching(transcriptions, case_id)) \o text
         Others(doc) == doc.case_id # case_id
     IN
     transcriptions' = Append(SelectSeq(transcriptions, Others),
                              [case_id |-> case_id, text |-> full])
  /\ store_hist' = [saves |-> store_hist.saves + 1,
                    last |-> [case_id |-> case_id, text |-> text]]

StoreNext == \E case_id \in CaseIds, text \in IncrementInputs :
  SaveIncrement(case_id, text)

StoreSpec == Init /\ [][StoreNext]_vars

(***************************************************************************)
(* The demographics endpoints over EHRService.  The timestamps created_at  *)
(* and updated_at are left out: no endpoint selects a record by them.      *)
(***************************************************************************)

\* collection.find_one({"_id": id}): the first document whose _id equals id,
\* in type and in value; an ObjectId never equals a str
FindById(coll, id) ==
  IF \E i \in 1..Len(coll) : coll[i]._id = id
  THEN coll[CHOOSE i \in 1..Len(coll) :
              /\ coll[i]._id = id
              /\ \A j \in 1..(i - 1) : coll[j]._id # id]
  ELSE NoRecord

\* Demographics(**record) serialised through response_model: the fields of
\* the model, with no identifier among them
Demographics(record) ==
  [patient_id |-> record.patient_id, phone |-> record.phone]

\* str(HTTPException(404, ...)): the detail of the 400 that the handlers'
\* `except Exception` raises in its place
NotFoundDetail == "404: Demographics record not found"

\* What `raise HTTPException(status_code=404, ...)` inside the try block of
\* a handler ends up as
RecordNotFound(op, record_id) ==
  [op |-> op, record_id |-> record_id, status |-> 400,
   body |-> [detail |-> NotFoundDetail]]

\* EHRService.create: _id is not in data, so a new ObjectId is generated
EHRCreate(coll, data, n) ==
  LET doc == [_id |-> ObjectId(n), patient_id |-> data.patient_id,
              phone |-> data.phone]
      stored == Append(coll, doc)
  IN  [coll |-> stored, created_record |-> FindById(stored, doc._id)]

\* EHRService.update: $set of the fields that are not None on the document
\* whose _id equals record_id, then find_one
EHRUpdate(coll, record_id, data) ==
  LET Set(doc) == [doc EXCEPT !.patient_id = data.patient_id,
                              !.phone = IF data.phone = "None" THEN @
                                        ELSE data.phone]
      updated == [i \in 1..Len(coll) |->
                    IF coll[i] = FindById(coll, record_id)
                    THEN Set(coll[i]) ELSE coll[i]]
  IN  [coll |-> updated, updated_record |-> FindById(updated, record_id)]

\* EHRService.delete: delete_one, then deleted_count > 0
EHRDelete(coll, record_id) ==
  LET found == FindById(coll, record_id)
      kept == SelectSeq(coll, LAMBDA doc : doc # found)
  IN  [coll |-> kept, deleted |-> found # NoRecord]

\* POST /api/ehr/demographics/
CreateDemographics(data) ==
  /\ UNCHANGED outsideEHR
  /\ ehr_hist.object_ids < MaxCreates
  /\ LET n == ehr_hist.object_ids + 1
         c == EHRCreate(demographics, data, n)
     IN  /\ demographics' = c.coll
         /\ ehr_hist' = [ehr_hist EXCEPT !.object_ids = n]
         /\ ehr_response' =
              [op |-> "create", record_id |-> HexStr(0), status |-> 200,
               body |-> Demographics(c.created_record)]

\* GET /api/ehr/demographics/{record_id}
GetDemographics(record_id) ==
  /\ UNCHANGED outsideEHR
  /\ LET record == FindById(demographics, record_id)
     IN  ehr_response' =
           IF record = NoRecord
           THEN RecordNotFound("get", record_id)
           ELSE [op |-> "get", record_id |-> record_id, status |-> 200,
                 body |-> Demographics(record)]
  /\ UNCHANGED <<demographics, ehr_hist>>

\* PUT /api/ehr/demographics/{record_id}
UpdateDemographics(record_id, data) ==
  /\ UNCHANGED outsideEHR
  /\ LET u == EHRUpdate(demographics, record_id, data)
     IN  /\ demographics' = u.coll
         /\ ehr_response' =
              IF u.updated_record = NoRecord
              THEN RecordNotFound("update", record_id)
              ELSE [op |-> "update", record_id |-> record_id,
                    status |-> 200, body |-> Demographics(u.updated_record)]
  /\ UNCHANGED ehr_hist

\* DELETE /api/ehr/demographics/{record_id}
DeleteDemographics(record_id) ==
  /\ UNCHANGED outsideEHR
  /\ LET d == EHRDelete(demographics, record_id)
     IN  /\ demographics' = d.coll
         /\ ehr_response' =
              IF d.deleted
              THEN [op |-> "delete", record_id |-> record_id, status |-> 200,
                    body |-> [message |->
                                "Demographics record deleted successfully"]]
              ELSE RecordNotFound("delete", record_id)
  /\ UNCHANGED ehr_hist

EHRNext ==
  \/ \E data \in DemographicsInputs : CreateDemographics(data)
  \/ \E record_id \in RecordIds : GetDemographics(record_id)
  \/ \E record_id \in RecordIds, data \in DemographicsInputs :
       UpdateDemographics(record_id, data)
  \/ \E record_id \in RecordIds : DeleteDemographics(record_id)

EHRSpec == Init /\ [][EHRNext]_vars

ASRNext ==
  \/ \E p \in Callers, frame \in FrameInputs : ReceiveAudio(p, frame)
  \/ \E p \in Callers : ConnectDone(p)
  \/ \E p \in Callers : ConnectFail(p)
  \/ \E p \in Callers : RecvResponse(p)
  \/ \E p \in Callers : RecvClosed(p)
  \/ \E p \in Callers : RecvTimeout(p)
  \/ \E p \in Callers : SendText(p)
  \/ DisconnectBegin
  \/ DisconnectEnd
  \/ \E c \in 1..Len(conns) : BackendRespond(c)
  \/ \E c \in 1..Len(conns) : BackendClose(c)

ASRSpec == Init /\ [][ASRNext]_vars

SessionNext ==
  \/ \E ct \in ContentTypes : ChunkSubmit(ct)
  \/ \E r \in requests, audio \in AudioInputs, ts \in TimestampInputs :
       ChunkFinish(r, audio, ts)
  \/ \E r \in requests : ChunkReadFails(r)
  \/ GetLatestTranscription
  \/ GetSessionStatus
  \/ TranscriptionHealthCheck
  \/ SummarizeConversation
  \/ StartSession
  \/ StopSession

SessionSpec == Init /\ [][SessionNext]_vars

KernelSpec == Init /\ [][KernelNext]_vars

(***************************************************************************)
(* Steps and states the properties below speak of                          *)
(***************************************************************************)
\* This step is a transcribe_chunk call returning (or raising) after its
\* recognizer call
ChunkCompleted == requests' # requests /\ requests' \subseteq requests

SegmentIds == {segments[i].id : i \in 1..Len(segments)}

(***************************************************************************)
(* C1. A transcribe-chunk call that yields non-empty text while is_active  *)
(* is false is rejected: it leaves segments, is_active, last_update and    *)
(* current_session_id as they were.                                        *)
(***************************************************************************)
C1_AppendRejectedWhenInactive ==
  [][(ChunkCompleted /\ ~is_active /\ recog'.text # <<>>)
       => UNCHANGED <<segments, is_active, last_update, current_session_id>>]_vars

(***************************************************************************)
(* C2. Between a start-session and the next start-session or               *)
(* summarize-conversation the segment list returned by                     *)
(* get-latest-transcription only grows at the tail, and after a start      *)
(* followed by N speech chunks submitted one after the other it holds      *)
(* exactly N segments, in submission order.                                *)
(***************************************************************************)
C2_SegmentsGrowAtTail ==
  /\ [][response'.op \notin {"start-session", "summarize-conversation"}
          => IsPrefix(Snapshot.segments, Snapshot'.segments)]_vars
  /\ [](current_session_id # None /\ hist.sequential /\ requests = {}
          => /\ Len(Snapshot.segments) = hist.spoken
             /\ \A i, j \in 1..Len(hist.origin) :
                  i < j => hist.origin[i].sub_no < hist.origin[j].sub_no)

\* Two speech chunks were submitted one after the other in a session and
\* the transcript was read
C2_Witness ==
  /\ current_session_id # None /\ hist.sequential /\ requests = {}
  /\ hist.spoken >= 2
  /\ response.op = "get-latest-transcription"
  /\ response.body.segments = segments
  /\ Len(segments) >= 2

(***************************************************************************)
(* C5. Every segment that was appended is still in the current segment     *)
(* list or was returned in the archived_conversation of some               *)
(* summarize-conversation call.                                            *)
(***************************************************************************)
C5_NoSegmentDropped == hist.appended \subseteq (SegmentIds \cup hist.archived)

(***************************************************************************)
(* C6. summarize-conversation on k >= 1 segments returns total_segments =  *)
(* k, and right after it session-status reports is_active false and        *)
(* segment_count 0.                                                        *)
(***************************************************************************)
C6_SummarizeClears ==
  [][(response'.op = "summarize-conversation" /\ Len(segments) >= 1)
       => /\ response'.body.success
          /\ response'.body.summary.total_segments = Len(segments)
          /\ SessionStatus'.is_active = FALSE
          /\ SessionStatus'.segment_count = 0]_vars

\* A session with two segments was just summarized
C6_Witness ==
  /\ response.op = "summarize-conversation"
  /\ response.body.success
  /\ response.body.summary.total_segments = 2
  /\ Len(response.body.archived_conversation.segments) = 2
  /\ SessionStatus.segment_count = 0

(***************************************************************************)
(* C7. A chunk for which the recognizer yields an empty or whitespace-only *)
(* transcript is answered {success: true, transcript: "", message: "No     *)
(* speech detected"} and changes none of segments, is_active, last_update  *)
(* and current_session_id.                                                 *)
(***************************************************************************)
C7_SilentChunkAppendsNothing ==
  [][(ChunkCompleted /\ recog'.called /\ Strip(recog'.text) = <<>>)
       => /\ response'.status = 200
          /\ response'.body = [success |-> TRUE, transcript |-> <<>>,
                               message |-> "No speech detected"]
          /\ UNCHANGED <<segments, is_active, last_update,
                         current_session_id>>]_vars

\* A silent chunk was just answered in an active session holding a segment
C7_Witness ==
  /\ response = NoSpeechDetected
  /\ recog.audio.decodable /\ recog.audio.peak < SilencePeak
  /\ is_active /\ Len(segments) >= 1

(***************************************************************************)
(* C11. stop-session is idempotent: a stop-session called right after a    *)
(* stop-session leaves transcription_state as the first one left it and    *)
(* returns the same session_id and total_segments.                         *)
(***************************************************************************)
C11_StopIdempotent ==
  [][(response.op = "stop-session" /\ response'.op = "stop-session")
       => /\ response'.body.session_id = response.body.session_id
          /\ response'.body.total_segments = response.body.total_segments
          /\ UNCHANGED <<segments, current_session_id, is_active,
                         last_update>>]_vars

\* A session holding a segment was just stopped (the state a second stop
\* starts from, and the one it ends in)
C11_Witness ==
  /\ response.op = "stop-session"
  /\ response.body.session_id = current_session_id
  /\ response.body.total_segments = Len(segments)
  /\ current_session_id # None /\ Len(segments) >= 1 /\ ~is_active

\* The frame half of C12: a stop-session step leaves segments,
\* current_session_id and last_update as they were, and the segments are
\* what get-latest-transcription returns right after it
C12_StopFrame ==
  [][response'.op = "stop-session"
       => /\ UNCHANGED <<segments, current_session_id, last_update>>
          /\ Snapshot'.segments = segments]_vars

\* The second half of C12: from a stopped session on, every step other than
\* summarize-conversation leaves the accumulated segments in the list that
\* get-latest-transcription returns
C12_ReadableUntilSummarize ==
  [][(~is_active /\ response'.op # "summarize-conversation")
       => IsPrefix(segments, Snapshot'.segments)]_vars

(***************************************************************************)
(* C12. stop-session changes only is_active: segments, current_session_id  *)
(* and last_update stay as they were, and the accumulated segments stay    *)
(* readable through get-latest-transcription until summarize-conversation  *)
(* is called.                                                              *)
(***************************************************************************)
C12_StopChangesOnlyActivity ==
  /\ C12_StopFrame
  /\ C12_ReadableUntilSummarize

(***************************************************************************)
(* C13. start-session returns a session_id that differs from every id      *)
(* handed out before, and right after it segments is empty, is_active is   *)
(* true and current_session_id is the id returned.                         *)
(***************************************************************************)
C13_StartAllocatesFreshSession ==
  [][response'.op = "start-session"
       => /\ response'.body.session_id \notin 1..next_uuid
          /\ response'.body.session_id # current_session_id
          /\ Snapshot'.segments = <<>>
          /\ Snapshot'.is_active
          /\ Snapshot'.session_id = response'.body.session_id]_vars

\* A second session was just started, after segments had been appended
C13_Witness ==
  /\ response.op = "start-session"
  /\ hist.starts = 2
  /\ hist.appended # {}
  /\ current_session_id = response.body.session_id
  /\ segments = <<>> /\ is_active

(***************************************************************************)
(* C14. stop-session does not cancel a recognition in flight: a chunk      *)
(* submitted to the session before the stop, whose non-empty transcript    *)
(* arrives after the stop and before the session is archived or replaced,  *)
(* is appended at the tail of that session's segment list.                 *)
(***************************************************************************)
C14_LateResultStillAppended ==
  [][\A r \in requests \ requests' :
       (/\ r.sub_sid = current_session_id
        /\ r.sub_no <= hist.stop_at
        /\ HasSpeech(recog'.text)
        /\ response'.status = 200)
         => /\ Len(segments') = Len(segments) + 1
            /\ IsPrefix(segments, segments')
            /\ segments'[Len(segments')].text = recog'.text
            /\ segments'[Len(segments')].id = response'.body.segment_id
            /\ current_session_id' = current_session_id]_vars

\* The last segment of the current session came from a chunk that was
\* submitted before a stop-session and appended after it
C14_Witness ==
  /\ current_session_id # None
  /\ is_active
  /\ segments # <<>>
  /\ hist.origin[Len(hist.origin)].sub_sid = current_session_id
  /\ hist.origin[Len(hist.origin)].sub_no <= hist.stop_at

(***************************************************************************)
(* C15. get-latest-transcription, session-status and health are pure       *)
(* reads: they change no field of transcription_state and answer with the  *)
(* state as it is. A transcribe-chunk append is one step, so a read taken  *)
(* while chunks are in flight sees the state before the append or after    *)
(* it: the new segment, last_update and is_active change together.         *)
(***************************************************************************)
C15_SnapshotReadsArePure ==
  /\ [][response'.op \in {"get-latest-transcription", "session-status",
                          "health"}
          => /\ UNCHANGED <<segments, current_session_id, is_active,
                            last_update>>
             /\ response'.op = "get-latest-transcription"
                  => response'.body = Snapshot'
             /\ response'.op = "session-status"
                  => response'.body = SessionStatus'
             /\ response'.op = "health"
                  => /\ response'.body.current_session = current_session_id'
                     /\ response'.body.active_segments = Len(segments')]_vars
  /\ [][(ChunkCompleted /\ segments' # segments)
          => /\ is_active'
             /\ last_update' = segments'[Len(segments')].startTime]_vars
  /\ [](segments # <<>>
          => last_update = segments[Len(segments)].startTime)

\* The transcript was read while a transcribe-chunk call was in flight and
\* a segment was in the list
C15_Witness ==
  /\ response.op = "get-latest-transcription"
  /\ response.body = Snapshot
  /\ requests # {}
  /\ Len(segments) >= 1

\* A Python str over the characters of the model
IsText(s) == s \in UNION {[1..n -> Chars] : n \in 0..3}

\* The call can only end in an internal failure: nothing decodes the file,
\* or the model does not run through
InternalFailure(suffix, audio) ==
  \/ ~audio.decodable /\ ~(suffix \in {"webm", "opus"} /\ audio.convertible)
  \/ ~audio.model_ok /\ audio.len >= MinSamples /\ audio.peak >= SilencePeak

(***************************************************************************)
(* C18. transcribe_audio and transcribe_audio_chunk_from_bytes never       *)
(* raise: for every input (decodable or not, short, silent or speech) they *)
(* return a string, and every internal failure ends in the empty string.   *)
(***************************************************************************)
C18_TranscribeNeverThrows ==
  /\ ~transcribed.raised
  /\ IsText(transcribed.text)
  /\ (transcribed.api # "none"
        /\ (InternalFailure(transcribed.suffix, transcribed.audio)
              \/ ~transcribed.is_bytes))
       => transcribed.text = <<>>

\* transcribe_audio has just returned "" for a .wav file that does not decode
C18_Witness ==
  /\ transcribed.api = "transcribe_audio"
  /\ transcribed.suffix = "wav"
  /\ ~transcribed.audio.decodable
  /\ transcribed.text = <<>>
  /\ ~transcribed.raised

(***************************************************************************)
(* C16. Whatever blocks are pushed, audio_buffer never holds more than     *)
(* 96,000 samples (6 s) and overlap_buffer never more than 16,000 (1 s):   *)
(* a push beyond capacity discards the oldest samples, so that the buffer  *)
(* holds the newest ones, and does not grow.                               *)
(***************************************************************************)
C16_WindowBufferBounded ==
  /\ DequeLen(audio_buffer) <= 96000
  /\ DequeLen(overlap_buffer) <= 16000
  /\ audio_buffer.pushed > 96000
       => DequeLen(audio_buffer) = 96000
  /\ overlap_buffer.pushed > 16000
       => DequeLen(overlap_buffer) = 16000
  /\ audio_buffer.pushed <= 96000 => audio_buffer.dropped = 0
  /\ overlap_buffer.pushed <= 16000 => overlap_buffer.dropped = 0

\* Both buffers were pushed beyond their capacity, the audio buffer by
\* blocks that each fit
C16_Witness ==
  /\ audio_buffer.pushed = 4000 + 80000 + 16000
  /\ audio_buffer.dropped = 4000
  /\ overlap_buffer.pushed > 16000
  /\ overlap_buffer.dropped > 0

\* The lengths a full window has: target_length fresh samples, alone or
\* behind the overlap tail of the window before, which together fill
\* audio_buffer
FullWindowLengths ==
  {AudioBuffer.maxlen - OverlapBuffer.maxlen, AudioBuffer.maxlen}

(***************************************************************************)
(* C17. On the streaming ingress every message sent to the recognizer is a *)
(* full window: exactly target_length samples behind the overlap tail of   *)
(* the previous window, never a partial one (the handler has no stop       *)
(* request, so no final flush either).                                     *)
(***************************************************************************)
C17_OnlyFullWindowsForwarded ==
  \A c \in 1..Len(conns) : \A i \in 1..Len(conns[c].pending) :
    conns[c].pending[i].len \in FullWindowLengths

(***************************************************************************)
(* C19. An upload that neither the declared format's decoder nor the       *)
(* decoder of the original bytes can read is answered to the caller of     *)
(* transcribe-chunk with a client error (4xx), and segments, is_active,    *)
(* last_update and current_session_id stay as they were.                   *)
(***************************************************************************)
C19_UndecodableIsClientError ==
  [][(/\ ChunkCompleted /\ recog'.called
      /\ ~recog'.audio.decodable /\ ~recog'.audio.convertible)
       => /\ response'.status \in 400..499
          /\ UNCHANGED <<segments, is_active, last_update,
                         current_session_id>>]_vars

\* The part of C19 the code keeps: such an upload changes none of
\* segments, is_active, last_update and current_session_id
C19_UndecodableLeavesState ==
  [][(/\ ChunkCompleted /\ recog'.called
      /\ ~recog'.audio.decodable /\ ~recog'.audio.convertible)
       => UNCHANGED <<segments, is_active, last_update,
                      current_session_id>>]_vars

\* This step is a second delivery of the incremental save before it
DuplicateSave ==
  /\ store_hist.saves >= 1
  /\ store_hist'.saves = store_hist.saves + 1
  /\ store_hist'.last = store_hist.last

(***************************************************************************)
(* C20. Incremental case save is idempotent under duplicate delivery: a    *)
(* second save of the same text for the same case leaves exactly one       *)
(* transcript document for the case, the one the first save left (the      *)
(* prior text followed by the increment once), so that find_one returns    *)
(* the same document after either call.                                    *)
(***************************************************************************)
C20_DuplicateSaveIdempotent ==
  [][DuplicateSave
       => /\ Len(Matching(transcriptions', store_hist.last.case_id)) = 1
          /\ FindOne(transcriptions', store_hist.last.case_id)
               = FindOne(transcriptions, store_hist.last.case_id)]_vars

\* The part of C20 the replacement keeps: a case never has more than one
\* transcript document
C20_OneDocumentPerCase ==
  \A case_id \in CaseIds : Len(Matching(transcriptions, case_id)) <= 1

OpenConnections == {c \in 1..Len(conns) : conns[c].open}

\* The audio is shorter than 0.5 s or its peak is under the silence threshold
ShortOrSilent(a) == a.len * 2 < sample_rate \/ a.peak < SilencePeak

(***************************************************************************)
(* C3. One send_audio call makes at most one reconnect attempt: after a    *)
(* connection-closed event it reconnects once and retries once, and a      *)
(* second closure is surfaced to the caller.                               *)
(***************************************************************************)
C3_AtMostOneReconnect == \A p \in Callers : callers[p].reconnects <= 1

(***************************************************************************)
(* C4. The text a send_audio call returns is the backend's response to the *)
(* audio that same call sent, for every interleaving of callers and every  *)
(* pattern of timeouts.                                                    *)
(***************************************************************************)
C4_ResponsesNeverCrossed ==
  \A p \in Callers :
    (callers[p].pc = "reply" /\ callers[p].result.status = "ok")
      => callers[p].result = BackendResponse(callers[p].audio)

(***************************************************************************)
(* C8. When the response does not arrive within the timeout, send_audio    *)
(* does not raise: it returns the sentinel with status "timeout" and an    *)
(* empty transcript, and the handler's loop goes on to its next request.   *)
(***************************************************************************)
C8_TimeoutReturnsSentinel ==
  /\ [](\A p \in Callers :
          callers[p].timed_out
            => /\ callers[p].pc = "reply"
               /\ callers[p].result.status = "timeout"
               /\ callers[p].result.transcript = "")
  /\ [][\A p \in Callers :
          (callers[p].timed_out /\ callers'[p] # callers[p])
            => callers'[p].pc = "idle"]_vars

\* A send_audio call has just timed out, in a run that handled two frames
C8_Witness ==
  \E p \in Callers :
    /\ callers[p].timed_out
    /\ callers[p].pc = "reply"
    /\ asr_hist.frames >= 2

(***************************************************************************)
(* C9. At most one connection opened by the client instance is open, under *)
(* any interleaving of send_audio, connect and disconnect calls.           *)
(***************************************************************************)
C9_OneConnectionPerClient == Cardinality(OpenConnections) <= 1

(***************************************************************************)
(* C10. Audio shorter than 0.5 s or with a peak under the silence          *)
(* threshold is answered with the empty string and never reaches the       *)
(* recognition backend: neither the local model on the chunked ingress nor *)
(* the remote recognizer on the streaming ingress.                         *)
(***************************************************************************)
\* The chunked half of C10: transcribe_audio answers short or silent audio
\* with "" and does not run the Whisper model
C10_ChunkedIngressSkipsBackend ==
  ShortOrSilent(recog.audio) => (~recog.invoked /\ recog.text = <<>>)

\* The streaming half of C10: no short or silent frame is sent to the
\* remote recognizer
C10_StreamingIngressSkipsBackend ==
  \A c \in 1..Len(conns) : \A i \in 1..Len(conns[c].pending) :
    ~ShortOrSilent(conns[c].pending[i])

\* C10: short or silent audio never reaches a recognition backend, on the
\* chunked and on the streaming ingress
C10_ShortOrSilentSkipsBackend ==
  /\ C10_ChunkedIngressSkipsBackend
  /\ C10_StreamingIngressSkipsBackend

(***************************************************************************)
(* C21. Once stop-session or summarize-conversation has set is_active to   *)
(* false it stays false until the next start-session: no other operation,  *)
(* transcribe-chunk included, turns it back to true.                       *)
(***************************************************************************)
C21_InactiveUntilStart ==
  [][(~is_active /\ response'.op # "start-session") => ~is_active']_vars

(***************************************************************************)
(* C22. start happens before any append: whenever the segment list is not  *)
(* empty or is_active is true, current_session_id is not None.             *)
(***************************************************************************)
C22_StartBeforeAppend ==
  (segments # <<>> \/ is_active) => current_session_id # None

(***************************************************************************)
(* C24. A segment recognized from a chunk that was submitted while session *)
(* S was current is in the list of S only: never in the list of a later    *)
(* session, and never in the list of the cleared state without a session.  *)
(***************************************************************************)
C24_SegmentStaysInItsSession ==
  \A i \in 1..Len(hist.origin) :
    hist.origin[i].sub_sid # None
      => hist.origin[i].sub_sid = current_session_id

(***************************************************************************)
(* C26. A transcribe-chunk upload whose content type does not start with   *)
(* "audio/" is answered with status 400 and "Invalid audio file".          *)
(***************************************************************************)
C26_InvalidContentTypeIs400 ==
  [][(/\ response'.op = "transcribe-chunk"
      /\ "detail" \in DOMAIN response'.body
      /\ response'.body.detail = "Invalid audio file")
       => response'.status = 400]_vars

C27_SummarizeEmptyChangesNothing ==
  [][(response'.op = "summarize-conversation" /\ segments = <<>>)
       => /\ response'.body = [success |-> FALSE,
                               message |-> "No conversation to summarize"]
          /\ UNCHANGED <<segments, current_session_id, is_active,
                         last_update>>]_vars

\* summarize-conversation has just been answered in an active session
\* without segments
C27_Witness ==
  /\ response.op = "summarize-conversation"
  /\ ~response.body.success
  /\ segments = <<>> /\ is_active /\ current_session_id # None
  /\ last_update # None

(***************************************************************************)
(* C23. Every temporary file made while handling audio is released on      *)
(* every exit path: once a call of the transcriber has returned, no file   *)
(* it created is left on disk.                                             *)
(***************************************************************************)
C23_TempFilesReleased == temp_files = {}


(***************************************************************************)
(* C28: a demographics record that was created is returned by a read       *)
(* through the identifier of that record, for as long as it is stored: a   *)
(* GET whose {record_id} is the string form of a stored record's _id is    *)
(* answered 200 with the fields of that record.                            *)
(***************************************************************************)
C28_CreateReadRoundTrip ==
  [][\A i \in 1..Len(demographics) :
       (/\ ehr_response'.op = "get"
        /\ ehr_response'.record_id = HexStr(demographics[i]._id.hex))
         => /\ ehr_response'.status = 200
            /\ ehr_response'.body = Demographics(demographics[i])]_vars

(***************************************************************************)
(* C29: reading, updating or deleting an identifier that no stored         *)
(* demographics record has is answered with status 404, and the collection *)
(* is left as it was.                                                      *)
(***************************************************************************)
C29_MissingRecordIs404 ==
  [][(/\ ehr_response'.op \in {"get", "update", "delete"}
      /\ \A i \in 1..Len(demographics) :
           demographics[i]._id.hex # ehr_response'.record_id.hex)
       => /\ ehr_response'.status = 404
          /\ demographics' = demographics]_vars

====
